---- MODULE Spec2Model ----
(***************************************************************************)
(* Model of app.py: the farmer / crop-recommendation web application.      *)
(*                                                                         *)
(* State: the two tables of crop_system.db (farmer, crop_recommendation),  *)
(* the module-level predictor handle `model`, the request being answered   *)
(* and its response, the last line the handlers printed, the last call to  *)
(* model.predict, and the in-flight register requests of the interleaved   *)
(* specification.                                                          *)
(*                                                                         *)
(* Three specifications:                                                   *)
(*   Spec       every handler runs to completion, the database answers     *)
(*              every call (the constraint violations the schema itself    *)
(*              raises included);                                          *)
(*   FaultSpec  as Spec, and a database call may raise OperationalError;   *)
(*   ConcSpec   register requests interleave: the existence query and the  *)
(*              insert/commit of one request are separate steps.           *)
(***************************************************************************)
EXTENDS Integers, Sequences, FiniteSets, TLC

VARIABLES model, farmers, recs, req, resp, log, predictCall,
          nRegistered, nRecommended, registered, pending

vars == <<model, farmers, recs, req, resp, log, predictCall,
          nRegistered, nRecommended, registered, pending>>

(***************************************************************************)
(* Bounds of the model.                                                    *)
(***************************************************************************)
MaxFarmers == 2
MaxRecs == 2
NProcs == 2

(***************************************************************************)
(* Program constants.  MODEL_ACCURACY is 99.32, kept in hundredths.        *)
(***************************************************************************)
MODEL_ACCURACY == 9932

None == "<None>"
Missing == "<missing>"
NoFault == "<no fault>"

Emails == {"a@farm", "b@farm"}
Passwords == {"pw1", "pw2"}
Labels == {"Rice", "Maize"}
Procs == 1..NProcs

\* Messages of sqlite3.OperationalError, raised when the database itself fails.
DbFaults == {"database is locked", "disk I/O error"}

Pages == {"index.html", "about.html", "contact.html"}

(***************************************************************************)
(* JSON values of a request body.  A string is a sequence of characters.   *)
(***************************************************************************)
JNum(n) == [t |-> "num", n |-> n, s |-> <<>>]
JStr(s) == [t |-> "str", n |-> 0, s |-> s]
JNull == [t |-> "null", n |-> 0, s |-> <<>>]
JMissing == [t |-> "missing", n |-> 0, s |-> <<>>]

Digits == {"0", "1", "2", "3", "4", "5", "6", "7", "8", "9"}

DigitVal(c) ==
    CASE c = "0" -> 0 [] c = "1" -> 1 [] c = "2" -> 2 [] c = "3" -> 3
      [] c = "4" -> 4 [] c = "5" -> 5 [] c = "6" -> 6 [] c = "7" -> 7
      [] c = "8" -> 8 [] c = "9" -> 9

RECURSIVE LStrip(_)
LStrip(s) == IF s # <<>> /\ Head(s) = " " THEN LStrip(Tail(s)) ELSE s

RECURSIVE RStrip(_)
RStrip(s) ==
    IF s # <<>> /\ s[Len(s)] = " " THEN RStrip(SubSeq(s, 1, Len(s) - 1)) ELSE s

RECURSIVE DigitsValue(_, _)
DigitsValue(s, acc) ==
    IF s = <<>> THEN acc ELSE DigitsValue(Tail(s), 10 * acc + DigitVal(Head(s)))

Ok(v) == [ok |-> TRUE, v |-> v, err |-> ""]
Raise(e) == [ok |-> FALSE, v |-> 0, err |-> e]

\* Faulty variant of ParseFloat: a string that is no number counts as 0.
ParseFloatLenient(s) ==
    LET t == RStrip(LStrip(s))
        signed == t # <<>> /\ Head(t) \in {"+", "-"}
        d == IF signed THEN Tail(t) ELSE t
    IN  IF d = <<>> \/ \E i \in 1..Len(d) : d[i] \notin Digits
        THEN Ok(0)
        ELSE IF signed /\ Head(t) = "-"
             THEN Ok(0 - DigitsValue(d, 0))
             ELSE Ok(DigitsValue(d, 0))

\* float(str): surrounding whitespace is dropped, one sign is allowed, and what
\* is left must be a non-empty run of digits (the strings of the model carry no
\* '.', exponent, '_', "inf" or "nan").
ParseFloat(s) ==
    LET t == RStrip(LStrip(s))
        signed == t # <<>> /\ Head(t) \in {"+", "-"}
        d == IF signed THEN Tail(t) ELSE t
    IN  IF d = <<>> \/ \E i \in 1..Len(d) : d[i] \notin Digits
        THEN Raise("ValueError")
        ELSE IF signed /\ Head(t) = "-"
             THEN Ok(0 - DigitsValue(d, 0))
             ELSE Ok(DigitsValue(d, 0))

\* float(data[key]): KeyError for an absent key, TypeError for null.
Float(v) ==
    CASE v.t = "missing" -> Raise("KeyError")
      [] v.t = "null" -> Raise("TypeError")
      [] v.t = "num" -> Ok(v.n)
      [] v.t = "str" -> ParseFloat(v.s)

(***************************************************************************)
(* Requests and responses.                                                 *)
(***************************************************************************)
FieldNames == <<"N", "P", "K", "Temperature", "Humidity", "PH", "Rainfall">>

NoFields ==
    [N |-> JMissing, P |-> JMissing, K |-> JMissing, Temperature |-> JMissing,
     Humidity |-> JMissing, PH |-> JMissing, Rainfall |-> JMissing]

Request(op, email, password, fields, farmer_email) ==
    [op |-> op, email |-> email, password |-> password, fields |-> fields,
     farmer_email |-> farmer_email]

NoRequest == Request("none", None, None, NoFields, Missing)

\* A response: the status and the keys of the JSON body.  An absent key is the
\* empty sequence; the message is the sequence of the pieces it is formatted
\* from; `page` is the template rendered by a page view.
Response(status, success, message) ==
    [status |-> status, success |-> success, message |-> <<message>>,
     recommended_crop |-> <<>>, model_accuracy |-> <<>>,
     farmers |-> <<>>, recommendations |-> <<>>, page |-> ""]

Welcome(email) == <<"Welcome ", email, "!">>

NoResponse == Response(0, FALSE, "")

\* An exception no handler catches: Flask answers 500 with its own page.
Unhandled == Response(500, FALSE, "Internal Server Error")

(***************************************************************************)
(* The persistence layer: the two tables and their constraints.            *)
(***************************************************************************)
\* Faulty variant of Farmer: the password column is filled from the email.
FarmerPasswordLost(id, email, password) ==
    [id |-> id, email |-> email, password |-> email]

Farmer(id, email, password) == [id |-> id, email |-> email, password |-> password]

CropRecommendation(id, farmer_email, crop_name, f) ==
    [id |-> id, farmer_email |-> farmer_email, crop_name |-> crop_name,
     N |-> f[1], P |-> f[2], K |-> f[3], Temperature |-> f[4],
     Humidity |-> f[5], PH |-> f[6], Rainfall |-> f[7]]

RECURSIVE MaxId(_)
MaxId(table) ==
    IF table = <<>> THEN 0
    ELSE LET m == MaxId(Tail(table))
         IN  IF Head(table).id > m THEN Head(table).id ELSE m

\* Faulty variant of NextId: the greatest id in use is given again.
NextIdReused(table) == IF table = <<>> THEN 1 ELSE MaxId(table)

\* Integer primary key: the row id SQLite gives a new row.
NextId(table) == MaxId(table) + 1

\* Faulty variant of FilterByEmail: the existence query finds nothing.
FilterByEmailSkipped(email) == <<>>

\* Farmer.query.filter_by(email=email)
FilterByEmail(email) == SelectSeq(farmers, LAMBDA r : r.email = email)

\* Faulty variant of FilterByEmailPassword: the password is not compared.
FilterByEmailOnly(email, password) ==
    SelectSeq(farmers, LAMBDA r : r.email = email)

\* Farmer.query.filter_by(email=email, password=password)
FilterByEmailPassword(email, password) ==
    SelectSeq(farmers, LAMBDA r : r.email = email /\ r.password = password)

\* Faulty variant of CommitFarmer: the email column is not UNIQUE.
CommitFarmerNoUnique(email, password, fault) ==
    IF fault # NoFault THEN [ok |-> FALSE, err |-> fault, table |-> farmers]
    ELSE IF email = None
    THEN [ok |-> FALSE, err |-> "NOT NULL constraint failed: farmer.email",
          table |-> farmers]
    ELSE IF password = None
    THEN [ok |-> FALSE, err |-> "NOT NULL constraint failed: farmer.password",
          table |-> farmers]
    ELSE [ok |-> TRUE, err |-> "",
          table |-> Append(farmers, [id |-> MaxId(farmers) + 1, email |-> email,
                                     password |-> password])]

\* db.session.add(Farmer(...)); db.session.commit(): the NOT NULL and UNIQUE
\* constraints of the farmer table decide whether the row is stored.
CommitFarmer(email, password, fault) ==
    IF fault # NoFault THEN [ok |-> FALSE, err |-> fault, table |-> farmers]
    ELSE IF email = None
    THEN [ok |-> FALSE, err |-> "NOT NULL constraint failed: farmer.email",
          table |-> farmers]
    ELSE IF password = None
    THEN [ok |-> FALSE, err |-> "NOT NULL constraint failed: farmer.password",
          table |-> farmers]
    ELSE IF \E i \in 1..Len(farmers) : farmers[i].email = email
    THEN [ok |-> FALSE, err |-> "UNIQUE constraint failed: farmer.email",
          table |-> farmers]
    ELSE [ok |-> TRUE, err |-> "",
          table |-> Append(farmers, Farmer(NextId(farmers), email, password))]

\* db.session.add(CropRecommendation(...)); db.session.commit()
CommitRecommendation(farmer_email, crop_name, features, fault) ==
    IF fault # NoFault THEN [ok |-> FALSE, err |-> fault, table |-> recs]
    ELSE IF farmer_email = None
    THEN [ok |-> FALSE,
          err |-> "NOT NULL constraint failed: crop_recommendation.farmer_email",
          table |-> recs]
    ELSE [ok |-> TRUE, err |-> "",
          table |-> Append(recs, CropRecommendation(NextId(recs), farmer_email,
                                                    crop_name, features))]

RECURSIVE Reverse(_)
Reverse(s) == IF s = <<>> THEN <<>> ELSE Append(Reverse(Tail(s)), Head(s))

\* Faulty variant of RecsByIdDesc: the rows in ascending id order.
RecsByIdAsc == recs

\* CropRecommendation.query.order_by(CropRecommendation.id.desc()).all():
\* rows are stored in ascending id order.
RecsByIdDesc == Reverse(recs)

(***************************************************************************)
(* The prediction adapter.                                                 *)
(***************************************************************************)
\* The rule table written for the case that no model file is found.
predict_crop_mock(features) ==
    LET N == features[1]
        P == features[2]
        K == features[3]
        temp == features[4]
        humidity == features[5]
        ph == features[6]
        rainfall == features[7]
    IN  IF N > 100 /\ temp > 25 THEN "Cotton"
        ELSE IF K > 50 /\ ph < 6 THEN "Rice"
        ELSE IF P > 50 /\ humidity < 70 THEN "Wheat"
        ELSE IF temp < 20 /\ rainfall > 200 THEN "Grapes"
        ELSE "Maize"

NoCall == [called |-> FALSE, features |-> <<>>, label |-> ""]

Loaded == "<predictor>"

(***************************************************************************)
(* Inputs.                                                                 *)
(***************************************************************************)
\* data.get('email'), data.get('password'): None when the key is absent.
EmailInputs == Emails \cup {None}
PasswordInputs == Passwords \cup {None}

\* data['farmer_email'] is a string, None (null), or Missing (no such key).

Base1 ==
    [N |-> JNum(120), P |-> JNum(10), K |-> JNum(10), Temperature |-> JNum(30),
     Humidity |-> JNum(50), PH |-> JNum(5), Rainfall |-> JNum(100)]

Base2 ==
    [N |-> JStr(<<" ", "9", "0">>), P |-> JStr(<<"+", "4", "2">>),
     K |-> JStr(<<"4", "3">>), Temperature |-> JStr(<<"-", "5">>),
     Humidity |-> JStr(<<"8", "2", " ">>), PH |-> JStr(<<"6">>),
     Rainfall |-> JStr(<<"2", "0", "3">>)]

Abc == JStr(<<"a", "b", "c">>)

\* One field of Base1 replaced by a value float() rejects, or left out.
BadEdits ==
    {<<"N", Abc>>, <<"N", JStr(<<>>)>>, <<"P", JStr(<<"1", " ", "2">>)>>,
     <<"K", JMissing>>, <<"Temperature", JNull>>, <<"Humidity", JStr(<<"-">>)>>,
     <<"PH", JMissing>>, <<"Rainfall", Abc>>}

BadBodies == {[Base1 EXCEPT ![e[1]] = e[2]] : e \in BadEdits}

\* The request bodies of /crop_recommendation: the fields and farmer_email.
CropInputs ==
    ({Base1} \X {"a@farm", None, Missing}) \cup {<<Base2, "b@farm">>}
        \cup (BadBodies \X {"a@farm"}) \cup {<<[Base1 EXCEPT !.N = Abc], Missing>>}

(***************************************************************************)
(* Initial state: empty tables; the model file was found and unpickled at  *)
(* start-up, or it was not and `model` stays None.                         *)
(***************************************************************************)
Idle == [pc |-> "idle", email |-> None, password |-> None, resp |-> NoResponse]

Init ==
    /\ model \in {None, Loaded}
    /\ farmers = <<>>
    /\ recs = <<>>
    /\ req = NoRequest
    /\ resp = NoResponse
    /\ log = <<>>
    /\ predictCall = NoCall
    /\ nRegistered = 0
    /\ nRecommended = 0
    /\ registered = {}
    /\ pending = [p \in Procs |-> Idle]

\* The request q is answered with r; `printed` is what the handler printed and
\* `call` the call it made to model.predict while answering.
Respond(q, r, printed, call) ==
    /\ req' = q
    /\ resp' = r
    /\ log' = printed
    /\ predictCall' = call

Quiet(q, r) == Respond(q, r, <<>>, NoCall)

(***************************************************************************)
(* Page views.                                                             *)
(***************************************************************************)
render_template(name) == [Response(200, TRUE, "") EXCEPT !.page = name]

index ==
    /\ Quiet(Request("index", None, None, NoFields, Missing),
               render_template("index.html"))
    /\ UNCHANGED <<model, farmers, recs, nRegistered, nRecommended, registered, pending>>

about ==
    /\ Quiet(Request("about", None, None, NoFields, Missing),
               render_template("about.html"))
    /\ UNCHANGED <<model, farmers, recs, nRegistered, nRecommended, registered, pending>>

contact ==
    /\ Quiet(Request("contact", None, None, NoFields, Missing),
               render_template("contact.html"))
    /\ UNCHANGED <<model, farmers, recs, nRegistered, nRecommended, registered, pending>>

(***************************************************************************)
(* POST /register                                                          *)
(***************************************************************************)
register(email, password, fault) ==
    LET q == Request("register", email, password, NoFields, Missing)
        c == CommitFarmer(email, password, fault)
    IN  IF fault = NoFault /\ FilterByEmail(email) # <<>>
        THEN /\ Quiet(q, Response(400, FALSE, "Email already registered!"))
             /\ UNCHANGED <<model, farmers, recs, nRegistered, nRecommended, registered, pending>>
        ELSE IF c.ok
        THEN /\ Len(farmers) < MaxFarmers
             /\ farmers' = c.table
             /\ nRegistered' = nRegistered + 1
             /\ registered' = registered \cup {<<email, password>>}
             /\ Quiet(q, Response(200, TRUE, "Registration successful!"))
             /\ UNCHANGED <<model, recs, nRecommended, pending>>
        ELSE /\ Quiet(q, Unhandled)
             /\ UNCHANGED <<model, farmers, recs, nRegistered, nRecommended, registered, pending>>

(***************************************************************************)
(* POST /login                                                             *)
(***************************************************************************)
login(email, password, fault) ==
    LET q == Request("login", email, password, NoFields, Missing)
    IN  /\ IF fault # NoFault
           THEN Quiet(q, Unhandled)
           ELSE IF FilterByEmailPassword(email, password) # <<>>
           THEN Quiet(q, [Response(200, TRUE, "") EXCEPT !.message = Welcome(email)])
           ELSE Quiet(q, Response(401, FALSE, "Invalid credentials."))
        /\ UNCHANGED <<model, farmers, recs, nRegistered, nRecommended, registered, pending>>

(***************************************************************************)
(* POST /crop_recommendation                                               *)
(***************************************************************************)
\* The seven coercions, in the order the handler makes them.
Coerced(fields) ==
    <<Float(fields.N), Float(fields.P), Float(fields.K),
      Float(fields.Temperature), Float(fields.Humidity), Float(fields.PH),
      Float(fields.Rainfall)>>

\* The first statement of the extraction that raises, or "" when none does:
\* the seven coercions, then data['farmer_email'].
ExtractError(fields, farmer_email) ==
    LET c == Coerced(fields)
        bad == {i \in 1..7 : ~c[i].ok}
    IN  IF bad # {}
        THEN c[CHOOSE i \in bad : \A j \in bad : i <= j].err
        ELSE IF farmer_email = Missing THEN "KeyError" ELSE ""

\* Faulty variant of Features: N and P change places.
FeaturesSwapped(fields) ==
    [i \in 1..7 |-> Coerced(fields)[IF i = 1 THEN 2 ELSE IF i = 2 THEN 1 ELSE i].v]

\* np.array([[N, P, K, Temp, Hum, PH, Rain]])
Features(fields) == [i \in 1..7 |-> Coerced(fields)[i].v]

GenericError == Response(500, FALSE, "Error processing request. Check input data.")

\* Faulty variant of NotLoaded: the rule table answers when `model` is None.
NotLoadedFallback(q) ==
    /\ Quiet(q, [Response(200, TRUE, "Crop recommended successfully!")
                    EXCEPT !.recommended_crop = <<predict_crop_mock(Features(q.fields))>>,
                           !.model_accuracy = <<MODEL_ACCURACY>>])
    /\ UNCHANGED <<model, farmers, recs, nRegistered, nRecommended,
                   registered, pending>>

\* The answer of /crop_recommendation while `model` is None.
NotLoaded(q) ==
    /\ Quiet(q, Response(503, FALSE, "ML Model is not loaded."))
    /\ UNCHANGED <<model, farmers, recs, nRegistered, nRecommended,
                   registered, pending>>

\* `label` is what model.predict answers for the feature vector.
crop_recommendation(fields, farmer_email, label, fault) ==
    LET q == Request("crop_recommendation", None, None, fields, farmer_email)
        e == ExtractError(fields, farmer_email)
        features == Features(fields)
        call == [called |-> TRUE, features |-> features, label |-> label]
        c == CommitRecommendation(farmer_email, label, features, fault)
    IN  IF model = None
        THEN NotLoaded(q)
        ELSE IF e # ""
        THEN /\ Respond(q, GenericError, <<"Error: ", e>>, NoCall)
             /\ UNCHANGED <<model, farmers, recs, nRegistered, nRecommended,
                            registered, pending>>
        ELSE IF ~c.ok
        THEN /\ Respond(q, GenericError, <<"Error: ", c.err>>, call)
             /\ UNCHANGED <<model, farmers, recs, nRegistered, nRecommended,
                            registered, pending>>
        ELSE /\ Len(recs) < MaxRecs
             /\ recs' = c.table
             /\ nRecommended' = nRecommended + 1
             /\ Respond(q, [Response(200, TRUE, "Crop recommended successfully!")
                              EXCEPT !.recommended_crop = <<label>>,
                                     !.model_accuracy = <<MODEL_ACCURACY>>],
                        <<>>, call)
             /\ UNCHANGED <<model, farmers, nRegistered, registered, pending>>

(***************************************************************************)
(* GET /admin_data                                                         *)
(***************************************************************************)
farmer_list == [i \in 1..Len(farmers) |->
                   [id |-> farmers[i].id, email |-> farmers[i].email]]

rec_list == RecsByIdDesc

admin_data(fault) ==
    LET q == Request("admin_data", None, None, NoFields, Missing)
    IN  /\ IF fault # NoFault
           THEN Respond(q, Response(500, FALSE, fault),
                        <<"Admin Data Error: ", fault>>, NoCall)
           ELSE Quiet(q, [Response(200, TRUE, "") EXCEPT
                             !.message = <<>>,
                             !.farmers = farmer_list,
                             !.recommendations = rec_list])
        /\ UNCHANGED <<model, farmers, recs, nRegistered, nRecommended,
                       registered, pending>>

(***************************************************************************)
(* Interleaved register requests: the existence query of a request and its *)
(* insert/commit are two steps, and steps of other requests run between.   *)
(***************************************************************************)
RegisterQuery(p, email, password) ==
    /\ pending[p].pc # "commit"
    /\ pending' = [pending EXCEPT ![p] =
          IF FilterByEmail(email) # <<>>
          THEN [pc |-> "done", email |-> email, password |-> password,
                resp |-> Response(400, FALSE, "Email already registered!")]
          ELSE [pc |-> "commit", email |-> email, password |-> password,
                resp |-> NoResponse]]
    /\ UNCHANGED <<model, farmers, recs, req, resp, log, predictCall,
                   nRegistered, nRecommended, registered>>

RegisterCommit(p) ==
    LET email == pending[p].email
        password == pending[p].password
        c == CommitFarmer(email, password, NoFault)
    IN  /\ pending[p].pc = "commit"
        /\ IF c.ok
           THEN /\ Len(farmers) < MaxFarmers
                /\ farmers' = c.table
                /\ nRegistered' = nRegistered + 1
                /\ registered' = registered \cup {<<email, password>>}
                /\ pending' = [pending EXCEPT ![p].pc = "done",
                       ![p].resp = Response(200, TRUE, "Registration successful!")]
           ELSE /\ pending' = [pending EXCEPT ![p].pc = "done",
                                              ![p].resp = Unhandled]
                /\ UNCHANGED <<farmers, nRegistered, registered>>
        /\ UNCHANGED <<model, recs, req, resp, log, predictCall,
                       nRecommended>>

(***************************************************************************)
(* Specifications.                                                         *)
(***************************************************************************)
Register == \E e \in EmailInputs, p \in PasswordInputs : register(e, p, NoFault)

Login == \E e \in EmailInputs, p \in PasswordInputs : login(e, p, NoFault)

Recommend ==
    \E i \in CropInputs, l \in Labels :
        crop_recommendation(i[1], i[2], l, NoFault)

AdminData == admin_data(NoFault)

Next == index \/ about \/ contact \/ Register \/ Login \/ Recommend \/ AdminData

Spec == Init /\ [][Next]_vars

Faults == DbFaults \cup {NoFault}

FaultyRegister ==
    \E e \in EmailInputs, p \in PasswordInputs, f \in Faults : register(e, p, f)

FaultyLogin ==
    \E e \in EmailInputs, p \in PasswordInputs, f \in Faults : login(e, p, f)

FaultyRecommend ==
    \E i \in CropInputs, l \in Labels, f \in Faults :
        crop_recommendation(i[1], i[2], l, f)

FaultyAdminData == \E f \in Faults : admin_data(f)

FaultNext ==
    index \/ about \/ contact \/ FaultyRegister \/ FaultyLogin
        \/ FaultyRecommend \/ FaultyAdminData

FaultSpec == Init /\ [][FaultNext]_vars

ConcRegisterQuery ==
    \E p \in Procs, e \in EmailInputs, pw \in PasswordInputs :
        RegisterQuery(p, e, pw)

ConcRegisterCommit == \E p \in Procs : RegisterCommit(p)

ConcNext == ConcRegisterQuery \/ ConcRegisterCommit

ConcSpec == Init /\ [][ConcNext]_vars

(***************************************************************************)
(* Properties.                                                             *)
(***************************************************************************)
RowsWithEmail(table, email) == {i \in 1..Len(table) : table[i].email = email}

\* The numbers the numeric strings of the request bodies denote.
Denotation ==
    {<<<<" ", "9", "0">>, 90>>, <<<<"+", "4", "2">>, 42>>, <<<<"4", "3">>, 43>>,
     <<<<"-", "5">>, 0 - 5>>, <<<<"8", "2", " ">>, 82>>, <<<<"6">>, 6>>,
     <<<<"2", "0", "3">>, 203>>}

Coercible(v) ==
    \/ v.t = "num"
    \/ v.t = "str" /\ \E d \in Denotation : d[1] = v.s

Denoted(v) ==
    IF v.t = "num" THEN v.n ELSE (CHOOSE d \in Denotation : d[1] = v.s)[2]

AllCoercible(fields) == \A i \in 1..7 : Coercible(fields[FieldNames[i]])

\* One more row than `old`, the old rows untouched and in place.
OneRowAdded(old, new) ==
    /\ Len(new) = Len(old) + 1
    /\ SubSeq(new, 1, Len(old)) = old

\* C1: a register request carrying an email and a password is refused with
\* 400 'Email already registered!' and leaves the farmer table alone when a row
\* with that email is stored; otherwise it adds exactly one row with that email
\* and password and answers success.  Either way one row holds the email after.
RegisterContract ==
    [][(req'.op = "register" /\ req'.email # None /\ req'.password # None) =>
         /\ IF RowsWithEmail(farmers, req'.email) # {}
            THEN /\ resp'.status = 400
                 /\ ~resp'.success
                 /\ resp'.message = <<"Email already registered!">>
                 /\ farmers' = farmers
            ELSE /\ resp'.status = 200
                 /\ resp'.success
                 /\ OneRowAdded(farmers, farmers')
                 /\ farmers'[Len(farmers')].email = req'.email
                 /\ farmers'[Len(farmers')].password = req'.password
         /\ Cardinality(RowsWithEmail(farmers', req'.email)) = 1
         /\ recs' = recs]_vars

\* A second register of a stored email was refused, with both emails stored.
RegisterWitness ==
    /\ req.op = "register"
    /\ resp.status = 400
    /\ Len(farmers) = 2
    /\ \E i \in 1..Len(farmers) :
          farmers[i].email = req.email /\ farmers[i].password # req.password

\* C2: login answers success exactly when a stored farmer row has that email
\* and that password, answers 401 otherwise, and changes neither table.
LoginContract ==
    [][req'.op = "login" =>
         LET match == \E i \in 1..Len(farmers) :
                         /\ farmers[i].email = req'.email
                         /\ farmers[i].password = req'.password
         IN  /\ (resp'.status = 200 /\ resp'.success) <=> match
             /\ ~match => (resp'.status = 401 /\ ~resp'.success)
             /\ farmers' = farmers
             /\ recs' = recs]_vars

\* A login with a stored email and a wrong password was answered 401.
LoginWitness ==
    /\ req.op = "login"
    /\ resp.status = 401
    /\ \E i \in 1..Len(farmers) :
          farmers[i].email = req.email /\ farmers[i].password # req.password

RecommendContract ==
    [][(/\ model # None
        /\ req'.op = "crop_recommendation"
        /\ AllCoercible(req'.fields)
        /\ req'.farmer_email \notin {None, Missing}) =>
         LET row == recs'[Len(recs')]
             f == req'.fields
             expected == <<Denoted(f.N), Denoted(f.P), Denoted(f.K),
                           Denoted(f.Temperature), Denoted(f.Humidity),
                           Denoted(f.PH), Denoted(f.Rainfall)>>
         IN  /\ OneRowAdded(recs, recs')
             /\ farmers' = farmers
             /\ row.farmer_email = req'.farmer_email
             /\ <<row.N, row.P, row.K, row.Temperature, row.Humidity, row.PH,
                  row.Rainfall>> = expected
             /\ predictCall'.called
             /\ predictCall'.features = expected
             /\ row.crop_name = predictCall'.label
             /\ resp'.status = 200
             /\ resp'.success
             /\ resp'.recommended_crop = <<predictCall'.label>>
             /\ resp'.model_accuracy = <<9932>>]_vars

\* A second recommendation, from numeric strings, for an email no farmer has.
RecommendWitness ==
    /\ req.op = "crop_recommendation"
    /\ resp.status = 200
    /\ req.fields = Base2
    /\ RowsWithEmail(farmers, req.farmer_email) = {}
    /\ Len(recs) = 2

AdminContract ==
    [][req'.op = "admin_data" =>
         LET fl == resp'.farmers
             rl == resp'.recommendations
         IN  /\ resp'.status = 200
             /\ Len(fl) = nRegistered
             /\ Len(rl) = nRecommended
             /\ {fl[i] : i \in 1..Len(fl)} =
                   {[id |-> farmers[i].id, email |-> farmers[i].email] :
                       i \in 1..Len(farmers)}
             /\ {rl[i] : i \in 1..Len(rl)} = {recs[i] : i \in 1..Len(recs)}
             /\ \A i \in 1..Len(rl), j \in 1..Len(rl) :
                   i < j => rl[i].id > rl[j].id
             /\ farmers' = farmers
             /\ recs' = recs]_vars

\* A dump of two farmers and two recommendations.
AdminWitness ==
    /\ req.op = "admin_data"
    /\ resp.status = 200
    /\ Len(resp.farmers) = 2
    /\ Len(resp.recommendations) = 2

\* C7 as stated: two requests to the same endpoint that both fail with 500
\* receive identical response bodies, whatever the internal errors were.
Generic500 ==
    [][(req'.op = req.op /\ resp.status = 500 /\ resp'.status = 500) =>
         resp' = resp]_vars

\* C8: no two farmer rows share an email, and of the register requests for one
\* email at most one is answered success, however the queries and commits of
\* the requests interleave.
UniqueEmail ==
    /\ \A i \in 1..Len(farmers), j \in 1..Len(farmers) :
          farmers[i].email = farmers[j].email => i = j
    /\ \A e \in Emails :
          Cardinality({p \in Procs : /\ pending[p].email = e
                                     /\ pending[p].resp.status = 200}) <= 1

\* Two requests for one email both passed the existence query; one was stored
\* and the other failed at its commit.
UniqueEmailWitness ==
    \E p \in Procs, q \in Procs :
        /\ p # q
        /\ pending[p].email = pending[q].email
        /\ pending[p].resp.status = 200
        /\ pending[q].resp = Unhandled
        /\ Cardinality(RowsWithEmail(farmers, pending[p].email)) = 1

\* C9: every operation keeps every farmer row and every recommendation row as
\* it was, and a row it adds has an id greater than every id of its table.
AppendOnly ==
    [][/\ \A i \in 1..Len(farmers) :
             \E j \in 1..Len(farmers') : farmers'[j] = farmers[i]
       /\ \A i \in 1..Len(recs) : \E j \in 1..Len(recs') : recs'[j] = recs[i]
       /\ Len(farmers') >= Len(farmers)
       /\ Len(recs') >= Len(recs)
       /\ \A j \in 1..Len(farmers') :
             (\A i \in 1..Len(farmers) : farmers[i] # farmers'[j]) =>
                 \A i \in 1..Len(farmers) : farmers'[j].id > farmers[i].id
       /\ \A j \in 1..Len(recs') :
             (\A i \in 1..Len(recs) : recs[i] # recs'[j]) =>
                 \A i \in 1..Len(recs) : recs'[j].id > recs[i].id]_vars

\* Both tables hold two rows.
AppendOnlyWitness ==
    /\ Len(farmers) = 2
    /\ Len(recs) = 2
    /\ farmers[2].id > farmers[1].id
    /\ recs[2].id > recs[1].id

\* C10: a login with an email and password for which a register request has
\* returned success is answered success, whatever requests came between.
RegisteredCanLogin ==
    (req.op = "login" /\ <<req.email, req.password>> \in registered) =>
        (resp.status = 200 /\ resp.success)

\* A login of the farmer registered first, after a second registration and a
\* recommendation.
RegisteredCanLoginWitness ==
    /\ req.op = "login"
    /\ Len(farmers) = 2
    /\ Len(recs) > 0
    /\ req.email = farmers[1].email
    /\ <<req.email, req.password>> \in registered
    /\ resp.status = 200

====
